---------------------------- MODULE Spec2Model ----------------------------
(***************************************************************************)
(* A model of the assisted-migration-agent runtime:                        *)
(*   - the CollectorService state machine (Start / Stop / GetStatus /      *)
(*     GetInventory / Inventory / Status and the scheduled collection job) *)
(*   - the scheduler's futures the collector and the console hold          *)
(*   - the local store rows the collector reads and writes                 *)
(*   - the Console reporter (SetMode / run / dispatchStatus)               *)
(***************************************************************************)
EXTENDS Naturals, FiniteSets, Sequences, TLC

VARIABLES
    state,          \* CollectorService.state
    lastError,      \* CollectorService.lastError
    collectFuture,  \* CollectorService.collectFuture: 0 is nil, else a task id
    mu,             \* CollectorService.mu: "unlocked" or "Start" (write-locked by Start)
    credentials,    \* the credentials table of the store: NoRow or the single row
    inventory,      \* the inventory blob of the store: NoInventory or its bytes
    tasks,          \* the collection tasks handed to the scheduler, by id
    nSubmitted,     \* how many collection tasks AddWork has accepted
    ret,            \* what the call that just returned handed to its caller
    target,         \* Console.status.Target
    current,        \* Console.status.Current
    consoleError,   \* Console.status.Error
    setModePc,      \* where the SetMode call holding Console.mu stands
    loops,          \* the run() goroutines of the Console, by id
    nLoops,         \* how many run() goroutines have been started
    statusTasks,    \* the status-update tasks handed to the scheduler, by id
    nDispatched,    \* how many status-update tasks AddWork has accepted
    sent,           \* the outbound request made by the step just taken
    table,          \* the credentials table of the database, column by column
    clock,          \* the database's now()
    storeRet,       \* what the last call on the CredentialsStore returned
    migrationFiles, \* the embedded sql/*.sql files, by name
    schemaMigrations, \* the schema_migrations table
    schemaObjects,  \* the migration files whose statements are committed
    executed,       \* how many times each file's SQL has been executed
    migRun,         \* the call of migrations.Run: where it stands, its locals
    request,        \* the HTTP request a handler is given, and what the service answers
    response,       \* the HTTP response the handler writes
    phase           \* how far the process of cmd/run.go is in its shutdown

collectorVars == <<state, lastError, collectFuture, mu, credentials, inventory,
                   tasks, nSubmitted, ret>>
consoleVars == <<target, current, consoleError, setModePc, loops, nLoops,
                 statusTasks, nDispatched, sent>>
storeVars == <<table, clock, storeRet>>
migrationVars == <<migrationFiles, schemaMigrations, schemaObjects, executed, migRun>>
handlerVars == <<request, response>>
processVars == <<phase>>
vars == <<collectorVars, consoleVars, storeVars, migrationVars, handlerVars,
          processVars>>

-----------------------------------------------------------------------------
(* Bounds of the model *)

\* collection tasks submitted in one behaviour
MaxTasks == 2
\* run loops started in one behaviour
MaxLoops == 2
\* the values now() takes in one behaviour: 0..MaxClock
MaxClock == 2
\* calls of migrations.Run in one behaviour
MaxRuns == 2
\* embedded migration files
MaxFiles == 2
\* status-update tasks dispatched in one behaviour
MaxStatusTasks == 2

(* Program constants *)

\* config.Agent.NumWorkers default
NumWorkers == 3

-----------------------------------------------------------------------------
(* Values *)

\* models.CollectorState
CollectorStateReady == "ready"
CollectorStateConnecting == "connecting"
CollectorStateConnected == "connected"
CollectorStateCollecting == "collecting"
CollectorStateCollected == "collected"
CollectorStateError == "error"

CollectorStates ==
    {CollectorStateReady, CollectorStateConnecting, CollectorStateConnected,
     CollectorStateCollecting, CollectorStateCollected, CollectorStateError}

\* The substrings verifyCredentials looks for in a login error's text.  An
\* error text is modelled by the set of these substrings it contains.
Markers == {"Login failure", "incorrect", "password"}

\* An error value: its kind and the markers its text contains.
Err(kind, marks) == [kind |-> kind, marks |-> marks]

NoError == Err("nil", {})
ErrCollectionInProgress == Err("collection already in progress", {})
ErrInvalidCredentials == Err("invalid credentials", {})
ErrNotFound == Err("not found", {})
\* an SQL error the store hands up verbatim
ErrSQL == Err("sql", {})
\* NewVSphereCollector's error (the database could not be opened)
ErrCreateCollector == Err("create collector", {})
\* Collect's error (no parity in time, the container refused the collector)
ErrCollect == Err("collect", {})

\* The credentials a caller can supply (url, username, password as one id).
CredentialIds == {"c1", "c2"}
Credentials(id, sharing) == [id |-> id, IsDataSharingAllowed |-> sharing]
NoRow == [id |-> "none", IsDataSharingAllowed |-> FALSE]
CredentialRows == {Credentials(c, s) : c \in CredentialIds, s \in BOOLEAN}

\* Inventory bytes.
InventoryBytes == {"inv0"}
NoInventory == "none"
EmptyJSON == "{}"

TaskIds == 1..MaxTasks
NoTask == [pc |-> "none", cancelled |-> FALSE, resolved |-> FALSE, err |-> NoError]

\* What a call returns: the operation, its error, and the data it read.
NoStatus == [State |-> "-", Error |-> NoError, HasCredentials |-> FALSE]
Return(op, err, status, data) == [op |-> op, err |-> err, status |-> status, data |-> data]
NoReturn == Return("-", NoError, NoStatus, "-")

-----------------------------------------------------------------------------
(* The store *)

\* CredentialsStore.Get: the row, ErrNotFound when there is none, or the SQL
\* error of a failing database.
CredentialsGet(row, fault) ==
    IF fault THEN [err |-> ErrSQL, row |-> NoRow]
    ELSE IF row = NoRow THEN [err |-> ErrNotFound, row |-> NoRow]
    ELSE [err |-> NoError, row |-> row]

\* CredentialsStore.Save: the upsert of the single row (id = 1); a failing
\* database writes nothing.
CredentialsSave(row, creds, fault) ==
    IF fault THEN [err |-> ErrSQL, row |-> row]
    ELSE [err |-> NoError, row |-> creds]

\* Store.Inventory().Get: the blob or ErrNotFound.
InventoryGet(inv, fault) ==
    IF fault THEN [err |-> ErrSQL, data |-> NoInventory]
    ELSE IF inv = NoInventory THEN [err |-> ErrNotFound, data |-> NoInventory]
    ELSE [err |-> NoError, data |-> inv]

-----------------------------------------------------------------------------
(* The scheduler's futures *)

\* Future.IsResolved
IsResolved(t) == tasks[t].resolved

\* models.Result: the value and the error a task's function returned.
Nil == "nil"
Result(data, err) == [Data |-> data, Err |-> err]
ZeroResult == Result(Nil, NoError)

\* Future.Poll on a future f whose function returned result: the zero Result
\* and false until f is resolved, the result and true from then on.
Poll(f, result) == IF f.resolved THEN <<result, TRUE>> ELSE <<ZeroResult, FALSE>>

\* The Result of the collection job: nil for the value at every return, and
\* the error of the return.
CollectionResult(f) == Result(Nil, f.err)

\* The context the collection job hands to Collect, as it would be if the job
\* closed over the ctx of Start.
JobContextRequest == "request"

\* The context the collection job hands to Collect: the ctx parameter the
\* scheduler calls the job with, not the ctx of Start.
JobContext == "scheduler"

\* Future.Stop: requests cancellation; no effect after resolution.
FutureStop(ts, t) ==
    IF ts[t].resolved THEN ts ELSE [ts EXCEPT ![t].cancelled = TRUE]

\* Scheduler.AddWork: the task joins the FIFO queue, and its future is returned.
AddWork(ts, t) == [ts EXCEPT ![t] = [NoTask EXCEPT !.pc = "queued"]]

\* The pcs at which a task occupies a worker.
RunningPcs == {"setCollecting", "create", "collect", "sleep", "returned"}
\* The pcs at which the task's function (the collection job body) is executing.
BodyPcs == {"setCollecting", "create", "collect", "sleep"}

Running == {t \in TaskIds : tasks[t].pc \in RunningPcs}
Executing == {t \in TaskIds : tasks[t].pc \in BodyPcs}
Queued == {t \in TaskIds : tasks[t].pc = "queued"}

-----------------------------------------------------------------------------
(* CollectorService *)

\* The fields setState and setError write.
Fields == [state |-> state, lastError |-> lastError]

\* A setState that forgets to clear the last error.
setStateKeepError(c, s) == [state |-> s, lastError |-> c.lastError]

\* setState keeps the last error only in the Error state.
setState(c, s) ==
    [state |-> s,
     lastError |-> IF s # CollectorStateError THEN NoError ELSE c.lastError]

setError(c, err) == [state |-> CollectorStateError, lastError |-> err]

\* The effect of setState / setError on the collector's variables.
Assign(c) == state' = c.state /\ lastError' = c.lastError

\* An in-progress check that looks at the state instead of the future.
InProgressByState == state = CollectorStateCollecting

\* An in-progress check that only asks whether a future is held and resolved.
InProgressInverted == collectFuture # 0 /\ IsResolved(collectFuture)

\* The check Start and Stop make on the held future.
InProgress == collectFuture # 0 /\ ~IsResolved(collectFuture)

\* What verifyCredentials can meet: no failure, or a failure at one of its
\* stages with an error text holding some of the markers.
VerifyStages == {"parse", "client", "login"}
VerifyInputs ==
    {[stage |-> "none", marks |-> {}]}
    \cup {[stage |-> s, marks |-> m] : s \in VerifyStages, m \in SUBSET Markers}

\* A verifyCredentials that normalises on any one of the markers.
verifyCredentialsEither(v) ==
    IF v.stage = "none" THEN NoError
    ELSE IF v.stage = "login"
            /\ ("Login failure" \in v.marks
                \/ "incorrect" \in v.marks \/ "password" \in v.marks)
         THEN ErrInvalidCredentials
    ELSE Err(v.stage, v.marks)

\* verifyCredentials: a login error is normalised, any other returned as is.
verifyCredentials(v) ==
    IF v.stage = "none" THEN NoError
    ELSE IF v.stage = "login"
            /\ ("Login failure" \in v.marks
                \/ ("incorrect" \in v.marks /\ "password" \in v.marks))
         THEN ErrInvalidCredentials
    ELSE Err(v.stage, v.marks)

\* GetStatus: the state, the error text and whether credentials are stored.
StatusOf(fault) ==
    [State |-> state,
     Error |-> lastError,
     HasCredentials |-> CredentialsGet(credentials, fault).err = NoError]

\* A GetStatus that reads the state without the read lock.
GetStatusNoLock(fault) ==
    /\ ret' = Return("GetStatus", NoError, StatusOf(fault), "-")
    /\ UNCHANGED <<state, lastError, collectFuture, mu, credentials, inventory,
                   tasks, nSubmitted>>
    /\ UNCHANGED <<consoleVars, storeVars, migrationVars, handlerVars, processVars>>

\* GetStatus takes the read lock: it waits while Start holds the write lock.
GetStatus(fault) ==
    /\ mu = "unlocked"
    /\ ret' = Return("GetStatus", NoError, StatusOf(fault), "-")
    /\ UNCHANGED <<state, lastError, collectFuture, mu, credentials, inventory,
                   tasks, nSubmitted>>
    /\ UNCHANGED <<consoleVars, storeVars, migrationVars, handlerVars, processVars>>

\* models.CollectorStatusType
CollectorStatusReady == "ready"
CollectorStatusConnecting == "connecting"
CollectorStatusConnected == "connected"
CollectorStatusCollecting == "collecting"
CollectorStatusCollected == "collected"
CollectorStatusError == "error"
CollectorStatusWaitingForCredentials == "waiting-for-credentials"

\* The switch of CollectorService.Status.
CollectorStatusType(s) ==
    CASE s = CollectorStateReady -> CollectorStatusReady
      [] s = CollectorStateConnecting -> CollectorStatusConnecting
      [] s = CollectorStateConnected -> CollectorStatusConnected
      [] s = CollectorStateCollecting -> CollectorStatusCollecting
      [] s = CollectorStateCollected -> CollectorStatusCollected
      [] s = CollectorStateError -> CollectorStatusError
      [] OTHER -> CollectorStatusReady

\* CollectorService.Status, under the read lock.
Status ==
    /\ mu = "unlocked"
    /\ ret' = Return("Status", NoError, NoStatus, CollectorStatusType(state))
    /\ UNCHANGED <<state, lastError, collectFuture, mu, credentials, inventory,
                   tasks, nSubmitted>>
    /\ UNCHANGED <<consoleVars, storeVars, migrationVars, handlerVars, processVars>>

\* The credentials StartCollector builds from the request, as they would be
\* if the handler carried the stored consent over.
HandlerCredentialsKeepConsent(id) == Credentials(id, credentials.IsDataSharingAllowed)

\* The credentials StartCollector builds from the request: url, username and
\* password, and IsDataSharingAllowed left at its zero value.
HandlerCredentials(id) == Credentials(id, FALSE)

\* Start, first part: the lock, the in-progress check, Save and the
\* transition to Connecting.  The credentials are those the handler builds
\* from the request: IsDataSharingAllowed is left false.
StartBegin(id, saveFault) ==
    /\ mu = "unlocked"
    /\ IF InProgress
       THEN /\ ret' = Return("Start", ErrCollectionInProgress, NoStatus, "-")
            /\ UNCHANGED <<state, lastError, collectFuture, mu, credentials,
                           inventory, tasks, nSubmitted>>
       ELSE /\ nSubmitted < MaxTasks
            /\ LET saved == CredentialsSave(credentials, HandlerCredentials(id), saveFault)
               IN  IF saved.err # NoError
                   THEN /\ ret' = Return("Start", saved.err, NoStatus, "-")
                        /\ UNCHANGED <<state, lastError, collectFuture, mu,
                                       credentials, inventory, tasks, nSubmitted>>
                   ELSE /\ credentials' = saved.row
                        /\ Assign(setState(Fields, CollectorStateConnecting))
                        /\ mu' = "Start"
                        /\ ret' = NoReturn
                        /\ UNCHANGED <<collectFuture, inventory, tasks, nSubmitted>>
    /\ UNCHANGED <<consoleVars, storeVars, migrationVars, handlerVars, processVars>>

\* startCollectionJob: reads the credentials back and submits the job; when
\* the read fails it records the error and submits nothing.
startCollectionJob(c, getFault) ==
    IF CredentialsGet(credentials, getFault).err # NoError
    THEN [fields |-> setError(c, CredentialsGet(credentials, getFault).err),
          submit |-> FALSE]
    ELSE [fields |-> c, submit |-> TRUE]

\* A Start that deletes the credentials it saved when verification fails.
StartVerifyRollback(v, getFault) ==
    /\ mu = "Start"
    /\ mu' = "unlocked"
    /\ LET err == verifyCredentials(v)
       IN  IF err # NoError
           THEN /\ Assign(setError(Fields, err))
                /\ ret' = Return("Start", err, NoStatus, "-")
                /\ credentials' = NoRow
                /\ UNCHANGED <<collectFuture, tasks, nSubmitted>>
           ELSE LET job == startCollectionJob(
                               setState(Fields, CollectorStateConnected), getFault)
                IN  /\ Assign(job.fields)
                    /\ ret' = Return("Start", NoError, NoStatus, "-")
                    /\ IF job.submit
                       THEN /\ nSubmitted' = nSubmitted + 1
                            /\ collectFuture' = nSubmitted + 1
                            /\ tasks' = AddWork(tasks, nSubmitted + 1)
                       ELSE UNCHANGED <<collectFuture, tasks, nSubmitted>>
                    /\ UNCHANGED credentials
    /\ UNCHANGED inventory
    /\ UNCHANGED <<consoleVars, storeVars, migrationVars, handlerVars, processVars>>

\* A Start without the deferred Unlock, whose return on a failed verification
\* leaves the lock held by nobody.
StartVerifyLeaksLock(v, getFault) ==
    /\ mu = "Start"
    /\ mu' = IF verifyCredentials(v) # NoError THEN "leaked" ELSE "unlocked"
    /\ LET err == verifyCredentials(v)
       IN  IF err # NoError
           THEN /\ Assign(setError(Fields, err))
                /\ ret' = Return("Start", err, NoStatus, "-")
                /\ UNCHANGED <<collectFuture, tasks, nSubmitted>>
           ELSE LET job == startCollectionJob(
                               setState(Fields, CollectorStateConnected), getFault)
                IN  /\ Assign(job.fields)
                    /\ ret' = Return("Start", NoError, NoStatus, "-")
                    /\ IF job.submit
                       THEN /\ nSubmitted' = nSubmitted + 1
                            /\ collectFuture' = nSubmitted + 1
                            /\ tasks' = AddWork(tasks, nSubmitted + 1)
                       ELSE UNCHANGED <<collectFuture, tasks, nSubmitted>>
    /\ UNCHANGED <<credentials, inventory>>
    /\ UNCHANGED <<consoleVars, storeVars, migrationVars, handlerVars, processVars>>

\* Start, second part: verification, then Connected and the job, or Error.
StartVerify(v, getFault) ==
    /\ mu = "Start"
    /\ mu' = "unlocked"
    /\ LET err == verifyCredentials(v)
       IN  IF err # NoError
           THEN /\ Assign(setError(Fields, err))
                /\ ret' = Return("Start", err, NoStatus, "-")
                /\ UNCHANGED <<collectFuture, tasks, nSubmitted>>
           ELSE LET job == startCollectionJob(
                               setState(Fields, CollectorStateConnected), getFault)
                IN  /\ Assign(job.fields)
                    /\ ret' = Return("Start", NoError, NoStatus, "-")
                    /\ IF job.submit
                       THEN /\ nSubmitted' = nSubmitted + 1
                            /\ collectFuture' = nSubmitted + 1
                            /\ tasks' = AddWork(tasks, nSubmitted + 1)
                       ELSE UNCHANGED <<collectFuture, tasks, nSubmitted>>
    /\ UNCHANGED <<credentials, inventory>>
    /\ UNCHANGED <<consoleVars, storeVars, migrationVars, handlerVars, processVars>>

\* A Stop that drops the future without asking it to stop.
StopWithoutCancel ==
    /\ mu = "unlocked"
    /\ collectFuture' = 0
    /\ Assign(setState(Fields, CollectorStateReady))
    /\ ret' = Return("Stop", NoError, NoStatus, "-")
    /\ UNCHANGED <<mu, credentials, inventory, tasks, nSubmitted>>
    /\ UNCHANGED <<consoleVars, storeVars, migrationVars, handlerVars, processVars>>

\* Stop: asks the unresolved future to stop, drops it, and returns to Ready.
Stop ==
    /\ mu = "unlocked"
    /\ tasks' = IF InProgress THEN FutureStop(tasks, collectFuture) ELSE tasks
    /\ collectFuture' = 0
    /\ Assign(setState(Fields, CollectorStateReady))
    /\ ret' = Return("Stop", NoError, NoStatus, "-")
    /\ UNCHANGED <<mu, credentials, inventory, nSubmitted>>
    /\ UNCHANGED <<consoleVars, storeVars, migrationVars, handlerVars, processVars>>

\* GetInventory: what the store holds, or its error.
GetInventory(fault) ==
    /\ ret' = Return("GetInventory", InventoryGet(inventory, fault).err, NoStatus,
                     InventoryGet(inventory, fault).data)
    /\ UNCHANGED <<state, lastError, collectFuture, mu, credentials, inventory,
                   tasks, nSubmitted>>
    /\ UNCHANGED <<consoleVars, storeVars, migrationVars, handlerVars, processVars>>

\* An Inventory that hands ErrNotFound up like any other error.
InventoryReaderNotFound(inv, fault) ==
    LET got == InventoryGet(inv, fault)
    IN  IF got.err # NoError
        THEN [err |-> got.err, data |-> NoInventory]
        ELSE [err |-> NoError, data |-> got.data]

\* Inventory (the reporter's view): ErrNotFound becomes the empty JSON object.
InventoryReader(inv, fault) ==
    LET got == InventoryGet(inv, fault)
    IN  IF got.err # NoError
        THEN IF got.err = ErrNotFound
             THEN [err |-> NoError, data |-> EmptyJSON]
             ELSE [err |-> got.err, data |-> NoInventory]
        ELSE [err |-> NoError, data |-> got.data]

Inventory(fault) ==
    /\ ret' = Return("Inventory", InventoryReader(inventory, fault).err, NoStatus,
                     InventoryReader(inventory, fault).data)
    /\ UNCHANGED <<state, lastError, collectFuture, mu, credentials, inventory,
                   tasks, nSubmitted>>
    /\ UNCHANGED <<consoleVars, storeVars, migrationVars, handlerVars, processVars>>

-----------------------------------------------------------------------------
(* The collection job: the function startCollectionJob hands to AddWork,    *)
(* run by a worker of the scheduler.  Each step that writes the collector's *)
(* state takes CollectorService.mu for the write and releases it.           *)

\* A free worker takes the task at the head of the FIFO queue and calls the job.
\* The workers of the one scheduler the collector and the console share that
\* are running a task.
BusyWorkers ==
    Cardinality(Running)
        + Cardinality({t \in 1..MaxStatusTasks : statusTasks[t].pc = "running"})

TaskBegin(t) ==
    /\ t \in Queued
    /\ \A u \in Queued : t <= u
    /\ BusyWorkers < NumWorkers
    /\ tasks' = [tasks EXCEPT ![t].pc = "setCollecting"]
    /\ ret' = NoReturn
    /\ UNCHANGED <<state, lastError, collectFuture, mu, credentials, inventory,
                   nSubmitted>>
    /\ UNCHANGED <<consoleVars, storeVars, migrationVars, handlerVars, processVars>>

\* The job's first statement: Collecting, under the lock.
TaskSetCollecting(t) ==
    /\ tasks[t].pc = "setCollecting"
    /\ mu = "unlocked"
    /\ Assign(setState(Fields, CollectorStateCollecting))
    /\ tasks' = [tasks EXCEPT ![t].pc = "create"]
    /\ ret' = NoReturn
    /\ UNCHANGED <<collectFuture, mu, credentials, inventory, nSubmitted>>
    /\ UNCHANGED <<consoleVars, storeVars, migrationVars, handlerVars, processVars>>

\* The job fails: Error under the lock, and the job returns the error.
TaskFail(t, err) ==
    /\ mu = "unlocked"
    /\ Assign(setError(Fields, err))
    /\ tasks' = [tasks EXCEPT ![t].pc = "returned", ![t].err = err]
    /\ ret' = NoReturn
    /\ UNCHANGED <<collectFuture, mu, credentials, inventory, nSubmitted>>

\* NewVSphereCollector: the collector and its database, or an error.
TaskCreate(t, ok) ==
    /\ tasks[t].pc = "create"
    /\ IF ok
       THEN /\ tasks' = [tasks EXCEPT ![t].pc = "collect"]
            /\ ret' = NoReturn
            /\ UNCHANGED <<state, lastError, collectFuture, mu, credentials,
                           inventory, nSubmitted>>
       ELSE TaskFail(t, ErrCreateCollector)
    /\ UNCHANGED <<consoleVars, storeVars, migrationVars, handlerVars, processVars>>

\* What the job does once Collect has returned nil: Collected under the lock.
\* Nothing is written to the store.
CollectDone(t) ==
    /\ mu = "unlocked"
    /\ Assign(setState(Fields, CollectorStateCollected))
    /\ tasks' = [tasks EXCEPT ![t].pc = "sleep"]
    /\ ret' = NoReturn
    /\ UNCHANGED <<collectFuture, mu, credentials, inventory, nSubmitted>>

\* A Collect without the limit of 300 retries that returns only once its
\* context is cancelled.
TaskCollectUntilCancelled(t, ok) ==
    /\ tasks[t].pc = "collect"
    /\ tasks[t].cancelled
    /\ IF ok THEN CollectDone(t) ELSE TaskFail(t, ErrCollect)
    /\ UNCHANGED <<consoleVars, storeVars, migrationVars, handlerVars, processVars>>

\* VSphereCollector.Collect: runs to parity or fails; it never looks at its
\* context, so a requested cancellation changes nothing.
TaskCollect(t, ok) ==
    /\ tasks[t].pc = "collect"
    /\ IF ok THEN CollectDone(t) ELSE TaskFail(t, ErrCollect)
    /\ UNCHANGED <<consoleVars, storeVars, migrationVars, handlerVars, processVars>>

\* After the 100ms sleep: Ready under the lock, and the job returns nil.
TaskSetReady(t) ==
    /\ tasks[t].pc = "sleep"
    /\ mu = "unlocked"
    /\ Assign(setState(Fields, CollectorStateReady))
    /\ tasks' = [tasks EXCEPT ![t].pc = "returned", ![t].err = NoError]
    /\ ret' = NoReturn
    /\ UNCHANGED <<collectFuture, mu, credentials, inventory, nSubmitted>>
    /\ UNCHANGED <<consoleVars, storeVars, migrationVars, handlerVars, processVars>>

\* The worker hands the job's result to the future, which resolves.
TaskResolve(t) ==
    /\ tasks[t].pc = "returned"
    /\ tasks' = [tasks EXCEPT ![t].pc = "done", ![t].resolved = TRUE]
    /\ ret' = NoReturn
    /\ UNCHANGED <<state, lastError, collectFuture, mu, credentials, inventory,
                   nSubmitted>>
    /\ UNCHANGED <<consoleVars, storeVars, migrationVars, handlerVars, processVars>>

\* The HTTP request that called Start is over and its context is cancelled:
\* the task t that Start submitted is asked to stop only if the job runs on the
\* request's context.
RequestContextDone(t) ==
    /\ tasks[t].pc # "none"
    /\ tasks' = IF JobContext = "request" THEN FutureStop(tasks, t) ELSE tasks
    /\ ret' = Return("ServeHTTP", NoError, NoStatus, "-")
    /\ UNCHANGED <<state, lastError, collectFuture, mu, credentials, inventory,
                   nSubmitted>>
    /\ UNCHANGED <<consoleVars, storeVars, migrationVars, handlerVars, processVars>>

-----------------------------------------------------------------------------
(* The collector's specification *)

CollectorInit ==
    /\ state = CollectorStateReady
    /\ lastError = NoError
    /\ collectFuture = 0
    /\ mu = "unlocked"
    /\ credentials \in {NoRow, Credentials("c1", TRUE)}
    /\ inventory \in {NoInventory} \cup InventoryBytes
    /\ tasks = [t \in TaskIds |-> NoTask]
    /\ nSubmitted = 0
    /\ ret = NoReturn

CollectorNext ==
    \/ \E id \in CredentialIds, f \in BOOLEAN : StartBegin(id, f)
    \/ \E v \in VerifyInputs, f \in BOOLEAN : StartVerify(v, f)
    \/ Stop
    \/ \E f \in BOOLEAN : GetStatus(f)
    \/ Status
    \/ \E f \in BOOLEAN : GetInventory(f)
    \/ \E f \in BOOLEAN : Inventory(f)
    \/ \E t \in TaskIds : TaskBegin(t)
    \/ \E t \in TaskIds : TaskSetCollecting(t)
    \/ \E t \in TaskIds, ok \in BOOLEAN : TaskCreate(t, ok)
    \/ \E t \in TaskIds, ok \in BOOLEAN : TaskCollect(t, ok)
    \/ \E t \in TaskIds : TaskSetReady(t)
    \/ \E t \in TaskIds : TaskResolve(t)
    \/ \E t \in TaskIds : RequestContextDone(t)

-----------------------------------------------------------------------------
(* Console: the reporter *)

\* models.ConsoleStatusType
ConsoleStatusDisconnected == "disconnected"
ConsoleStatusConnected == "connected"

\* models.AgentMode
AgentModeConnected == "connected"
AgentModeDisconnected == "disconnected"

LoopIds == 1..MaxLoops
StatusTaskIds == 1..MaxStatusTasks

\* A run() goroutine: where it stands and the future f it holds (0: none yet).
NoLoop == [pc |-> "none", f |-> 0]
\* A task the Console hands to the scheduler, and its future: what it sends
\* (kind), where it stands, the remote's answer (code), and how many run loops
\* had been started when the answer came (epoch).
NoStatusTask == [kind |-> "none", pc |-> "none", resolved |-> FALSE, code |-> 0,
                 epoch |-> 0, payload |-> <<>>]

\* The run() goroutines that have not returned.
LiveLoops == {l \in LoopIds : loops[l].pc \in {"start", "select"}}
\* The run() goroutines that have still to make their first dispatchStatus.
StartingLoops == {l \in LoopIds : loops[l].pc = "start"}

\* The answers of the remote console to PUT /agents/{id}.
ResponseCodes == {200, 401, 410, 500}

\* NewConsoleService: target Disconnected, no run loop.
NewConsoleService ==
    /\ target = ConsoleStatusDisconnected
    /\ loops = [l \in LoopIds |-> NoLoop]
    /\ nLoops = 0

\* NewConnectedConsoleService: target Connected, and `go c.run()`.
NewConnectedConsoleService ==
    /\ target = ConsoleStatusConnected
    /\ loops = [l \in LoopIds |-> IF l = 1 THEN [NoLoop EXCEPT !.pc = "start"] ELSE NoLoop]
    /\ nLoops = 1

\* newConsoleService: the fields every Console starts with.
newConsoleService ==
    /\ current = ConsoleStatusDisconnected
    /\ consoleError = NoError
    /\ setModePc = "idle"
    /\ statusTasks = [t \in StatusTaskIds |-> NoStatusTask]
    /\ nDispatched = 0
    /\ sent = "-"

\* cmd/run.go: the constructor is chosen by the agent's configured mode.
ConsoleInit ==
    /\ NewConsoleService \/ NewConnectedConsoleService
    /\ newConsoleService

\* A SetMode(connected) that sets the current status with the target.
SetModeConnectedSetsCurrent ==
    /\ setModePc = "idle"
    /\ nLoops < MaxLoops
    /\ nDispatched + Cardinality(StartingLoops) < MaxStatusTasks
    /\ target' = ConsoleStatusConnected
    /\ nLoops' = nLoops + 1
    /\ loops' = [loops EXCEPT ![nLoops + 1] = [NoLoop EXCEPT !.pc = "start"]]
    /\ sent' = "-"
    /\ current' = ConsoleStatusConnected
    /\ UNCHANGED <<consoleError, setModePc, statusTasks, nDispatched>>
    /\ UNCHANGED <<collectorVars, storeVars, migrationVars, handlerVars, processVars>>

\* SetMode(connected): the target, and a new run() goroutine, under Console.mu.
SetModeConnected ==
    /\ setModePc = "idle"
    /\ nLoops < MaxLoops
    /\ nDispatched + Cardinality(StartingLoops) < MaxStatusTasks
    /\ target' = ConsoleStatusConnected
    /\ nLoops' = nLoops + 1
    /\ loops' = [loops EXCEPT ![nLoops + 1] = [NoLoop EXCEPT !.pc = "start"]]
    /\ sent' = "-"
    /\ UNCHANGED <<current, consoleError, setModePc, statusTasks, nDispatched>>
    /\ UNCHANGED <<collectorVars, storeVars, migrationVars, handlerVars, processVars>>

\* SetMode(disconnected) as it would be without the test of the target: the
\* send on close is made whatever the target is.
SetModeDisconnectedAlwaysSends ==
    /\ setModePc = "idle"
    /\ setModePc' = "sending"
    /\ target' = target
    /\ sent' = "-"
    /\ UNCHANGED <<current, consoleError, loops, nLoops, statusTasks, nDispatched>>
    /\ UNCHANGED <<collectorVars, storeVars, migrationVars, handlerVars, processVars>>

\* SetMode(disconnected), up to the send on the unbuffered close channel:
\* with target Connected the caller blocks in the send, holding Console.mu.
SetModeDisconnected ==
    /\ setModePc = "idle"
    /\ IF target = ConsoleStatusConnected
       THEN setModePc' = "sending" /\ target' = target
       ELSE setModePc' = "idle" /\ target' = ConsoleStatusDisconnected
    /\ sent' = "-"
    /\ UNCHANGED <<current, consoleError, loops, nLoops, statusTasks, nDispatched>>
    /\ UNCHANGED <<collectorVars, storeVars, migrationVars, handlerVars, processVars>>

\* dispatchStatus: AddWork of one status update.
dispatchStatus(sts, t) ==
    [sts EXCEPT ![t] = [NoStatusTask EXCEPT
                            !.kind = "status", !.pc = "queued",
                            !.payload = <<"agentID", "sourceID",
                                          CollectorStatusWaitingForCredentials>>]]

\* What UpdateAgentStatus returns on an answer other than 200.
ErrUpdateAgentStatus == Err("update agent status", {})

\* The Result of dispatchStatus's task: struct{}{} for the value, and what
\* UpdateAgentStatus returned for the error.
StatusResult(f) ==
    Result("struct{}{}", IF f.code = 200 THEN NoError ELSE ErrUpdateAgentStatus)

\* A Poll that reports the future of status update t resolved whether or not
\* the remote has answered.
PollStatusEager(t) == <<StatusResult(statusTasks[t]), TRUE>>

\* f.Poll() on the future of status update t.
PollStatus(t) == Poll(statusTasks[t], StatusResult(statusTasks[t]))

\* run(), before the loop, as it would be without the first dispatchStatus:
\* the loop holds no future, so no tick finds one resolved and nothing is
\* ever dispatched.
LoopStartWithoutDispatch(l) ==
    /\ loops[l].pc = "start"
    /\ nDispatched < MaxStatusTasks
    /\ loops' = [loops EXCEPT ![l] = [pc |-> "idle", f |-> 0]]
    /\ sent' = "-"
    /\ UNCHANGED <<target, current, consoleError, setModePc, nLoops, statusTasks,
                   nDispatched>>
    /\ UNCHANGED <<collectorVars, storeVars, migrationVars, handlerVars, processVars>>

\* run(), before the loop: the ticker and the first dispatchStatus.
LoopStart(l) ==
    /\ loops[l].pc = "start"
    /\ nDispatched < MaxStatusTasks
    /\ nDispatched' = nDispatched + 1
    /\ statusTasks' = dispatchStatus(statusTasks, nDispatched + 1)
    /\ loops' = [loops EXCEPT ![l] = [pc |-> "select", f |-> nDispatched + 1]]
    /\ sent' = "-"
    /\ UNCHANGED <<target, current, consoleError, setModePc, nLoops>>
    /\ UNCHANGED <<collectorVars, storeVars, migrationVars, handlerVars, processVars>>

\* run(), a tick, as it would be if a failed status update ended the loop:
\* only a 200 is followed by a new dispatchStatus.
LoopTickStopOnError(l) ==
    /\ loops[l].pc = "select"
    /\ PollStatus(loops[l].f)[2]
    /\ nDispatched + Cardinality(StartingLoops) < MaxStatusTasks
    /\ IF statusTasks[loops[l].f].code = 200
       THEN /\ nDispatched' = nDispatched + 1
            /\ statusTasks' = dispatchStatus(statusTasks, nDispatched + 1)
            /\ loops' = [loops EXCEPT ![l].f = nDispatched + 1]
       ELSE /\ loops' = [loops EXCEPT ![l].pc = "exited"]
            /\ UNCHANGED <<nDispatched, statusTasks>>
    /\ sent' = "-"
    /\ UNCHANGED <<target, current, consoleError, setModePc, nLoops>>
    /\ UNCHANGED <<collectorVars, storeVars, migrationVars, handlerVars, processVars>>

\* run(), a tick: Poll; a resolved future is replaced by a new dispatchStatus
\* (an unresolved one leaves everything as it is).
LoopTick(l) ==
    /\ loops[l].pc = "select"
    /\ PollStatus(loops[l].f)[2]
    /\ nDispatched + Cardinality(StartingLoops) < MaxStatusTasks
    /\ nDispatched' = nDispatched + 1
    /\ statusTasks' = dispatchStatus(statusTasks, nDispatched + 1)
    /\ loops' = [loops EXCEPT ![l].f = nDispatched + 1]
    /\ sent' = "-"
    /\ UNCHANGED <<target, current, consoleError, setModePc, nLoops>>
    /\ UNCHANGED <<collectorVars, storeVars, migrationVars, handlerVars, processVars>>

\* run() receives from close: this loop returns, and the SetMode(disconnected)
\* that was sending goes on to set the target and release Console.mu.
LoopClose(l) ==
    /\ loops[l].pc = "select"
    /\ setModePc = "sending"
    /\ loops' = [loops EXCEPT ![l].pc = "exited"]
    /\ setModePc' = "idle"
    /\ target' = ConsoleStatusDisconnected
    /\ sent' = "-"
    /\ UNCHANGED <<current, consoleError, nLoops, statusTasks, nDispatched>>
    /\ UNCHANGED <<collectorVars, storeVars, migrationVars, handlerVars, processVars>>

StatusQueued == {t \in StatusTaskIds : statusTasks[t].pc = "queued"}
StatusRunning == {t \in StatusTaskIds : statusTasks[t].pc = "running"}

\* A free worker takes the status update at the head of the queue and runs
\* it: UpdateAgentStatus sends PUT /agents/{id} to the remote.
StatusTaskSend(t) ==
    /\ t \in StatusQueued
    /\ \A u \in StatusQueued : t <= u
    /\ BusyWorkers < NumWorkers
    /\ statusTasks' = [statusTasks EXCEPT ![t].pc = "running"]
    /\ sent' = "status"
    /\ UNCHANGED <<target, current, consoleError, setModePc, loops, nLoops,
                   nDispatched>>
    /\ UNCHANGED <<collectorVars, storeVars, migrationVars, handlerVars, processVars>>

\* The remote answers, UpdateAgentStatus returns and the future resolves.
StatusTaskResolve(t, code) ==
    /\ statusTasks[t].pc = "running"
    /\ statusTasks' = [statusTasks EXCEPT ![t].pc = "done", ![t].resolved = TRUE,
                                          ![t].code = code, ![t].epoch = nLoops]
    /\ sent' = "-"
    /\ UNCHANGED <<target, current, consoleError, setModePc, loops, nLoops,
                   nDispatched>>
    /\ UNCHANGED <<collectorVars, storeVars, migrationVars, handlerVars, processVars>>

ConsoleNext ==
    \/ SetModeConnected
    \/ SetModeDisconnected
    \/ \E l \in LoopIds : LoopStart(l)
    \/ \E l \in LoopIds : LoopTick(l)
    \/ \E l \in LoopIds : LoopClose(l)
    \/ \E t \in StatusTaskIds : StatusTaskSend(t)
    \/ \E t \in StatusTaskIds, code \in ResponseCodes : StatusTaskResolve(t, code)

-----------------------------------------------------------------------------
(* The CredentialsStore on its table, column by column *)

\* models.Credentials as the callers of the store fill it in.
CredentialValues ==
    [URL : {"u1", "u2"}, Username : {"n1"}, Password : {"p1", "p2"},
     IsDataSharingAllowed : BOOLEAN]

\* A models.Credentials with nothing in it (the zero value).
ZeroCredentials ==
    [URL |-> "", Username |-> "", Password |-> "", IsDataSharingAllowed |-> FALSE,
     CreatedAt |-> 0, UpdatedAt |-> 0]

\* The table with no row in it. The table is the set of its rows, each with
\* its columns id, url, username, password, is_data_sharing_allowed,
\* created_at and updated_at.
EmptyTable == {}

\* The rows a statement with WHERE id = 1 (or ON CONFLICT (id) for a row
\* inserted with id 1) applies to.
RowsWithId1(tbl) == {r \in tbl : r.id = 1}

\* Save's arguments, in the order ExecContext binds them to the ?s.
UpsertArgs(c) == <<c.URL, c.Username, c.Password, c.IsDataSharingAllowed>>

\* An upsert without the fixed key: every Save inserts a row of its own,
\* under the next id.
queryInsertCredentials(tbl, args, now) ==
    tbl \cup {[id |-> Cardinality(tbl) + 1,
               url |-> args[1],
               username |-> args[2],
               password |-> args[3],
               is_data_sharing_allowed |-> args[4],
               created_at |-> now,
               updated_at |-> now]}

\* An upsert whose ON CONFLICT branch leaves updated_at as it was.
queryUpsertKeepUpdatedAt(tbl, args, now) ==
    IF RowsWithId1(tbl) = {}
    THEN tbl \cup {[id |-> 1,
                    url |-> args[1],
                    username |-> args[2],
                    password |-> args[3],
                    is_data_sharing_allowed |-> args[4],
                    created_at |-> now,
                    updated_at |-> now]}
    ELSE {IF r.id = 1
          THEN [r EXCEPT !.url = args[1],
                         !.username = args[2],
                         !.password = args[3],
                         !.is_data_sharing_allowed = args[4]]
          ELSE r : r \in tbl}

\* queryUpsertCredentials: INSERT (id, url, username, password,
\* is_data_sharing_allowed, updated_at) VALUES (1, ?, ?, ?, ?, now()), where
\* created_at takes its default now(); ON CONFLICT (id) the four columns and
\* updated_at of the row in conflict are overwritten and its created_at stays.
queryUpsertCredentials(tbl, args, now) ==
    IF RowsWithId1(tbl) = {}
    THEN tbl \cup {[id |-> 1,
                    url |-> args[1],
                    username |-> args[2],
                    password |-> args[3],
                    is_data_sharing_allowed |-> args[4],
                    created_at |-> now,
                    updated_at |-> now]}
    ELSE {IF r.id = 1
          THEN [r EXCEPT !.url = args[1],
                         !.username = args[2],
                         !.password = args[3],
                         !.is_data_sharing_allowed = args[4],
                         !.updated_at = now]
          ELSE r : r \in tbl}

\* queryGetCredentials: SELECT url, username, password,
\* is_data_sharing_allowed, created_at, updated_at WHERE id = 1, as QueryRow
\* hands it to Scan: the columns of the first row in that order, or no row.
queryGetCredentials(tbl) ==
    IF RowsWithId1(tbl) = {} THEN <<>>
    ELSE LET r == CHOOSE x \in RowsWithId1(tbl) : TRUE
         IN  <<r.url, r.username, r.password, r.is_data_sharing_allowed,
               r.created_at, r.updated_at>>

\* A DELETE that refuses a table without the row, as a statement that looked
\* at the number of rows affected would.
queryDeleteCredentialsStrict(tbl) ==
    IF RowsWithId1(tbl) = {} THEN [err |-> ErrNotFound, tbl |-> tbl]
    ELSE [err |-> NoError, tbl |-> tbl \ RowsWithId1(tbl)]

\* queryDeleteCredentials: DELETE FROM credentials WHERE id = 1; deleting no
\* row is no error.
queryDeleteCredentials(tbl) == [err |-> NoError, tbl |-> tbl \ RowsWithId1(tbl)]

\* A Scan that reads the password column into Username and the username
\* column into Password.
ScanSwapped(cols) ==
    [URL |-> cols[1], Username |-> cols[3], Password |-> cols[2],
     IsDataSharingAllowed |-> cols[4], CreatedAt |-> cols[5], UpdatedAt |-> cols[6]]

\* row.Scan(&c.URL, &c.Username, &c.Password, &c.IsDataSharingAllowed,
\*          &c.CreatedAt, &c.UpdatedAt)
Scan(cols) ==
    [URL |-> cols[1], Username |-> cols[2], Password |-> cols[3],
     IsDataSharingAllowed |-> cols[4], CreatedAt |-> cols[5], UpdatedAt |-> cols[6]]

\* What a call on the store hands back: the error and, for Save the
\* credentials it was given, for Get the credentials it returns.
StoreReturn(op, err, creds) == [op |-> op, err |-> err, creds |-> creds]

\* CredentialsStore.Save(creds); a failing database writes nothing.
StoreSave(c, fault) ==
    /\ table' = IF fault THEN table
                ELSE queryUpsertCredentials(table, UpsertArgs(c), clock)
    /\ storeRet' = StoreReturn("Save", IF fault THEN ErrSQL ELSE NoError, c)
    /\ UNCHANGED clock
    /\ UNCHANGED <<collectorVars, consoleVars, migrationVars, handlerVars, processVars>>

\* CredentialsStore.Get(): ErrNotFound for sql.ErrNoRows, any other error as
\* it is, else the scanned row.
StoreGet(fault) ==
    /\ storeRet' = IF fault THEN StoreReturn("Get", ErrSQL, ZeroCredentials)
              ELSE IF queryGetCredentials(table) = <<>>
                   THEN StoreReturn("Get", ErrNotFound, ZeroCredentials)
                   ELSE StoreReturn("Get", NoError, Scan(queryGetCredentials(table)))
    /\ UNCHANGED <<table, clock>>
    /\ UNCHANGED <<collectorVars, consoleVars, migrationVars, handlerVars, processVars>>

\* CredentialsStore.Delete(): queryDeleteCredentials removes the row, if any.
StoreDelete(fault) ==
    /\ table' = IF fault THEN table ELSE queryDeleteCredentials(table).tbl
    /\ storeRet' = StoreReturn("Delete",
                               IF fault THEN ErrSQL
                               ELSE queryDeleteCredentials(table).err,
                               ZeroCredentials)
    /\ UNCHANGED clock
    /\ UNCHANGED <<collectorVars, consoleVars, migrationVars, handlerVars, processVars>>

\* Time passes between two statements.
StoreTick ==
    /\ clock <= MaxClock
    /\ clock' = clock + 1
    /\ UNCHANGED <<table, storeRet>>
    /\ UNCHANGED <<collectorVars, consoleVars, migrationVars, handlerVars, processVars>>

\* The database after the migrations, before any call on the store.
StoreInit ==
    /\ table = EmptyTable
    /\ clock = 1
    /\ storeRet = StoreReturn("none", NoError, ZeroCredentials)

StoreNext ==
    \/ \E c \in CredentialValues, f \in BOOLEAN : StoreSave(c, f)
    \/ \E f \in BOOLEAN : StoreGet(f)
    \/ \E f \in BOOLEAN : StoreDelete(f)
    \/ StoreTick

-----------------------------------------------------------------------------
(* The migrations *)

\* A file name is the sequence of the characters before its ".sql".
CharCode(ch) ==
    CASE ch = "0" -> 48 [] ch = "1" -> 49 [] ch = "2" -> 50
      [] ch = "_" -> 95 [] ch = "a" -> 97
Digits == {"0", "1", "2"}

\* The files an embedded sql directory is made of: 01_a, 1_a, 2_a, 10_a, and
\* three whose prefix is no version: a_a, 2 (no underscore) and 0_a.
FilePool ==
    {<<"0", "1", "_", "a">>, <<"1", "_", "a">>, <<"2", "_", "a">>,
     <<"1", "0", "_", "a">>, <<"a", "_", "a">>, <<"2">>, <<"0", "_", "a">>}

\* sort.Strings: byte-wise lexicographic order (a name that is a prefix of
\* another comes first, as its next byte is the "." of ".sql").
RECURSIVE StringLE(_, _)
StringLE(a, b) ==
    IF a = <<>> THEN TRUE
    ELSE IF b = <<>> THEN FALSE
    ELSE IF Head(a) = Head(b) THEN StringLE(Tail(a), Tail(b))
    ELSE CharCode(Head(a)) < CharCode(Head(b))

RECURSIVE SortStrings(_)
SortStrings(S) ==
    IF S = {} THEN <<>>
    ELSE LET m == CHOOSE x \in S : \A y \in S : StringLE(x, y)
         IN  <<m>> \o SortStrings(S \ {m})

\* getMigrationFiles: the .sql files of the embedded directory, sorted.
getMigrationFiles(files) == SortStrings(files)

\* strings.SplitN(base, "_", 2)[0]: the characters before the first "_", or
\* the whole base when there is none, the "." of its ".sql" included.
RECURSIVE BeforeUnderscore(_)
BeforeUnderscore(name) ==
    IF name = <<>> THEN <<".">>
    ELSE IF Head(name) = "_" THEN <<>>
    ELSE <<Head(name)>> \o BeforeUnderscore(Tail(name))

\* strconv.Atoi on a string of digits.
RECURSIVE DecimalValue(_)
DecimalValue(ds) ==
    IF ds = <<>> THEN 0
    ELSE 10 * DecimalValue(SubSeq(ds, 1, Len(ds) - 1)) + (CharCode(ds[Len(ds)]) - 48)

\* extractVersion: the integer before the "_", or 0 when Atoi fails (no
\* underscore, an empty or a non-numeric prefix).
extractVersion(name) ==
    LET part == BeforeUnderscore(name)
    IN  IF part = <<>> THEN 0
        ELSE IF \E i \in 1..Len(part) : part[i] \notin Digits THEN 0
        ELSE DecimalValue(part)

\* An applied map that answers false for every version.
IsAppliedNever(applied, version) == FALSE

\* applied[version] of Run's loop.
IsApplied(applied, version) == version \in applied

ErrMigration(stage) == Err(stage, {})
\* No Run has returned yet.
NotRun == Err("not run", {})

\* The stages at which a statement of Run or runMigration can fail.
RunBeginFaults == {"none", "creating migrations table", "getting applied versions"}
RunFileFaults == {"none", "beginning transaction", "executing migration",
                  "recording migration", "commit"}

\* Run returns err: the call is over.
RunReturn(err) ==
    migRun' = [migRun EXCEPT !.pc = "idle", !.err = err, !.todo = <<>>]

\* Run, up to its loop: createMigrationsTable (CREATE TABLE IF NOT EXISTS),
\* getAppliedVersions (the versions recorded now) and getMigrationFiles.
RunBegin(fault) ==
    /\ migRun.pc = "idle"
    /\ migRun.n < MaxRuns
    /\ IF fault = "creating migrations table"
       THEN /\ migRun' = [migRun EXCEPT !.n = @ + 1, !.prev = migRun.err,
                                        !.err = ErrMigration(fault)]
            /\ UNCHANGED schemaMigrations
       ELSE /\ schemaMigrations' = [schemaMigrations EXCEPT !.exists = TRUE]
            /\ IF fault = "getting applied versions"
               THEN migRun' = [migRun EXCEPT !.n = @ + 1, !.prev = migRun.err,
                                             !.err = ErrMigration(fault)]
               ELSE migRun' = [pc |-> "loop",
                               applied |-> schemaMigrations.versions,
                               todo |-> getMigrationFiles(migrationFiles),
                               err |-> migRun.err,
                               prev |-> migRun.err,
                               n |-> migRun.n + 1]
    /\ UNCHANGED <<migrationFiles, schemaObjects, executed>>
    /\ UNCHANGED <<collectorVars, consoleVars, storeVars, handlerVars, processVars>>

\* A runMigration without the transaction: the file's SQL stays in the
\* database when a later statement fails.
runMigrationNoTx(file, version, fault) ==
    /\ executed' = IF fault = "beginning transaction" THEN executed
                   ELSE [executed EXCEPT ![file] = @ + 1]
    /\ IF fault \in {"beginning transaction", "executing migration"}
       THEN /\ RunReturn(ErrMigration(fault))
            /\ UNCHANGED <<schemaMigrations, schemaObjects>>
       ELSE IF fault # "none" \/ version \in schemaMigrations.versions
       THEN /\ RunReturn(ErrMigration("recording migration"))
            /\ schemaObjects' = schemaObjects \cup {file}
            /\ UNCHANGED schemaMigrations
       ELSE /\ schemaMigrations' =
                    [schemaMigrations EXCEPT !.versions = @ \cup {version}]
            /\ schemaObjects' = schemaObjects \cup {file}
            /\ migRun' = [migRun EXCEPT !.todo = Tail(@)]

\* runMigration(file, version): in one transaction, the file's SQL and the
\* INSERT of the version; an error at any statement, a version already in
\* schema_migrations (its primary key) included, rolls the transaction back.
runMigration(file, version, fault) ==
    /\ executed' = IF fault = "beginning transaction" THEN executed
                   ELSE [executed EXCEPT ![file] = @ + 1]
    /\ IF fault # "none"
       THEN /\ RunReturn(ErrMigration(fault))
            /\ UNCHANGED <<schemaMigrations, schemaObjects>>
       ELSE IF version \in schemaMigrations.versions
       THEN /\ RunReturn(ErrMigration("recording migration"))
            /\ UNCHANGED <<schemaMigrations, schemaObjects>>
       ELSE /\ schemaMigrations' =
                    [schemaMigrations EXCEPT !.versions = @ \cup {version}]
            /\ schemaObjects' = schemaObjects \cup {file}
            /\ migRun' = [migRun EXCEPT !.todo = Tail(@)]

\* One turn of Run's loop over the files.
RunFile(fault) ==
    /\ migRun.pc = "loop"
    /\ migRun.todo # <<>>
    /\ LET file == Head(migRun.todo)
           version == extractVersion(file)
       IN  IF version = 0 \/ IsApplied(migRun.applied, version)
           THEN /\ fault = "none"
                /\ migRun' = [migRun EXCEPT !.todo = Tail(@)]
                /\ UNCHANGED <<schemaMigrations, schemaObjects, executed>>
           ELSE runMigration(file, version, fault)
    /\ UNCHANGED migrationFiles
    /\ UNCHANGED <<collectorVars, consoleVars, storeVars, handlerVars, processVars>>

\* The loop is over: Run returns nil.
RunEnd ==
    /\ migRun.pc = "loop"
    /\ migRun.todo = <<>>
    /\ RunReturn(NoError)
    /\ UNCHANGED <<migrationFiles, schemaMigrations, schemaObjects, executed>>
    /\ UNCHANGED <<collectorVars, consoleVars, storeVars, handlerVars, processVars>>

\* A new database and the files the binary embeds.
MigrationsInit ==
    /\ migrationFiles \in {F \in SUBSET FilePool : Cardinality(F) <= MaxFiles}
    /\ schemaMigrations = [exists |-> FALSE, versions |-> {}]
    /\ schemaObjects = {}
    /\ executed = [f \in FilePool |-> 0]
    /\ migRun = [pc |-> "idle", applied |-> {}, todo |-> <<>>, err |-> NotRun,
                 prev |-> NotRun, n |-> 0]

\* The database of an agent whose one embedded migration has run.
MigrationsDone ==
    /\ migrationFiles = {<<"0", "1", "_", "a">>}
    /\ schemaMigrations = [exists |-> TRUE, versions |-> {1}]
    /\ schemaObjects = {<<"0", "1", "_", "a">>}
    /\ executed = [f \in FilePool |-> IF f = <<"0", "1", "_", "a">> THEN 1 ELSE 0]
    /\ migRun = [pc |-> "idle", applied |-> {}, todo |-> <<>>, err |-> NoError,
                 prev |-> NotRun, n |-> 1]

MigrationsNext ==
    \/ \E fault \in RunBeginFaults : RunBegin(fault)
    \/ \E fault \in RunFileFaults : RunFile(fault)
    \/ RunEnd

-----------------------------------------------------------------------------
(* The HTTP handlers of the collector *)

StatusOK == 200
StatusAccepted == 202
StatusBadRequest == 400
StatusUnauthorized == 401
StatusNotFound == 404
StatusConflict == 409
StatusInternalServerError == 500

\* The url fields of the requests, and what url.Parse makes of each.
RequestUrls == {"", "vcenter/sdk", "https:///sdk", "://vcenter", "https://vcenter/sdk"}
urlParse(u) ==
    CASE u = "" -> [err |-> FALSE, Scheme |-> "", Host |-> ""]
      [] u = "vcenter/sdk" -> [err |-> FALSE, Scheme |-> "", Host |-> ""]
      [] u = "https:///sdk" -> [err |-> FALSE, Scheme |-> "https", Host |-> ""]
      [] u = "://vcenter" -> [err |-> TRUE, Scheme |-> "", Host |-> ""]
      [] u = "https://vcenter/sdk" -> [err |-> FALSE, Scheme |-> "https", Host |-> "vcenter"]

\* What CollectorService.Start and GetInventory may hand to their handler.
StartOutcomes ==
    {NoError, ErrCollectionInProgress, ErrInvalidCredentials, ErrSQL,
     Err("login", {"password"}), Err("parse", {})}
InventoryOutcomes == {NoError, ErrNotFound, ErrSQL}

\* POST /collector: whether the body binds to v1.CollectorStartRequest, its
\* fields, and the error Start returns if it is called.
StartRequests ==
    [handler : {"StartCollector"}, bind : BOOLEAN, Url : RequestUrls,
     Username : {"", "admin"}, Password : {"", "secret"}, outcome : StartOutcomes]
\* GET /collector/inventory.
InventoryRequests ==
    [handler : {"GetInventory"}, bind : {TRUE}, Url : {""}, Username : {""},
     Password : {""}, outcome : InventoryOutcomes]
NoRequest ==
    [handler |-> "none", bind |-> TRUE, Url |-> "", Username |-> "",
     Password |-> "", outcome |-> NoError]

\* The response: its status, and whether the handler called the service.
Response(code, called) == [code |-> code, called |-> called]
NoResponse == Response(0, FALSE)

\* errors.Is for the errors of this program, none of which wraps another.
errorsIs(err, sentinel) == err = sentinel

\* A StartCollector without the case of ErrInvalidCredentials.
StartCollectorNoUnauthorized(req) ==
    IF ~req.bind THEN Response(StatusBadRequest, FALSE)
    ELSE IF req.Url = "" \/ req.Username = "" \/ req.Password = ""
    THEN Response(StatusBadRequest, FALSE)
    ELSE IF urlParse(req.Url).err \/ urlParse(req.Url).Scheme = ""
            \/ urlParse(req.Url).Host = ""
    THEN Response(StatusBadRequest, FALSE)
    ELSE IF req.outcome # NoError
    THEN IF errorsIs(req.outcome, ErrCollectionInProgress)
         THEN Response(StatusConflict, TRUE)
         ELSE Response(StatusInternalServerError, TRUE)
    ELSE Response(StatusAccepted, TRUE)

\* Handler.StartCollector
StartCollector(req) ==
    IF ~req.bind THEN Response(StatusBadRequest, FALSE)
    ELSE IF req.Url = "" \/ req.Username = "" \/ req.Password = ""
    THEN Response(StatusBadRequest, FALSE)
    ELSE IF urlParse(req.Url).err \/ urlParse(req.Url).Scheme = ""
            \/ urlParse(req.Url).Host = ""
    THEN Response(StatusBadRequest, FALSE)
    ELSE IF req.outcome # NoError
    THEN IF errorsIs(req.outcome, ErrCollectionInProgress)
         THEN Response(StatusConflict, TRUE)
         ELSE IF errorsIs(req.outcome, ErrInvalidCredentials)
         THEN Response(StatusUnauthorized, TRUE)
         ELSE Response(StatusInternalServerError, TRUE)
    ELSE Response(StatusAccepted, TRUE)

\* Handler.GetInventory
HandlerGetInventory(req) ==
    IF req.outcome # NoError
    THEN IF errorsIs(req.outcome, ErrNotFound)
         THEN Response(StatusNotFound, TRUE)
         ELSE Response(StatusInternalServerError, TRUE)
    ELSE Response(StatusOK, TRUE)

\* The router hands a POST /collector to its handler.
ServeStartCollector ==
    /\ request.handler = "StartCollector"
    /\ response = NoResponse
    /\ response' = StartCollector(request)
    /\ UNCHANGED request
    /\ UNCHANGED <<collectorVars, consoleVars, storeVars, migrationVars, processVars>>

\* The router hands a GET /collector/inventory to its handler.
ServeGetInventory ==
    /\ request.handler = "GetInventory"
    /\ response = NoResponse
    /\ response' = HandlerGetInventory(request)
    /\ UNCHANGED request
    /\ UNCHANGED <<collectorVars, consoleVars, storeVars, migrationVars, processVars>>

\* No request is being served.
HandlersIdle ==
    /\ request = NoRequest
    /\ response = NoResponse

\* A request has arrived.
HandlersInit ==
    /\ request \in StartRequests \cup InventoryRequests
    /\ response = NoResponse

HandlersNext == ServeStartCollector \/ ServeGetInventory

-----------------------------------------------------------------------------
(* The shutdown of the process *)

\* The process serves: no signal yet.
ProcessRunning == phase = "running"

\* SIGINT, SIGHUP, SIGTERM or SIGQUIT: the context of NotifyContext is done.
Signal ==
    /\ phase = "running"
    /\ phase' = "signalled"
    /\ UNCHANGED <<collectorVars, consoleVars, storeVars, migrationVars, handlerVars>>

\* srv.Stop with its 2s context, srv.Start returns and wg.Wait is over.
ServerStop ==
    /\ phase = "signalled"
    /\ phase' = "serverStopped"
    /\ UNCHANGED <<collectorVars, consoleVars, storeVars, migrationVars, handlerVars>>

\* RunE returns: the deferred sched.Close() runs first.
SchedulerClose ==
    /\ phase = "serverStopped"
    /\ phase' = "schedulerClosed"
    /\ UNCHANGED <<collectorVars, consoleVars, storeVars, migrationVars, handlerVars>>

\* ... and the deferred s.Close() after it.
StoreClose ==
    /\ phase = "schedulerClosed"
    /\ phase' = "storeClosed"
    /\ UNCHANGED <<collectorVars, consoleVars, storeVars, migrationVars, handlerVars>>

ShutdownNext == Signal \/ ServerStop \/ SchedulerClose \/ StoreClose

-----------------------------------------------------------------------------
(* Specifications *)

\* What the services are constructed on: the database after the migrations
\* of cmd/run.go, and no request yet.
AgentStarted == StoreInit /\ MigrationsDone /\ HandlersIdle /\ ProcessRunning

\* The collector, its jobs and the store, in an agent started disconnected.
Init == CollectorInit /\ NewConsoleService /\ newConsoleService /\ AgentStarted

Next == CollectorNext

Spec == Init /\ [][Next]_vars

\* The scheduling the collector runs under: a verification ends (it has a
\* timeout of 10s), a free worker takes the head of the queue, a task's
\* statements are executed, and a task that waits for the collector's mutex
\* gets it if the mutex is released again and again (sync.Mutex hands over to
\* a starving waiter).
FairnessCollector ==
    /\ WF_vars(\E v \in VerifyInputs, f \in BOOLEAN : StartVerify(v, f))
    /\ \A t \in TaskIds : WF_vars(TaskBegin(t))
    /\ \A t \in TaskIds : SF_vars(TaskSetCollecting(t))
    /\ \A t \in TaskIds : WF_vars(\E ok \in BOOLEAN : TaskCreate(t, ok))
    /\ \A t \in TaskIds : SF_vars(\E ok \in BOOLEAN : TaskCollect(t, ok))
    /\ \A t \in TaskIds : SF_vars(TaskSetReady(t))
    /\ \A t \in TaskIds : WF_vars(TaskResolve(t))

SpecLive == Init /\ [][Next]_vars /\ FairnessCollector

\* The console reporter, its run loops and its status updates.
InitConsole == CollectorInit /\ ConsoleInit /\ AgentStarted

NextConsole == ConsoleNext

SpecConsole == InitConsole /\ [][NextConsole]_vars

\* The scheduling the reporter runs under: every goroutine that can take a
\* step is scheduled, the ticker of a run loop fires, a select with a sender
\* waiting on close receives from it, a free worker takes the head of the
\* queue, and every request ends (answer, network error or timeout).
FairnessConsole ==
    /\ \A l \in LoopIds : WF_vars(LoopStart(l))
    /\ \A l \in LoopIds : WF_vars(LoopTick(l))
    /\ WF_vars(\E l \in LoopIds : LoopClose(l))
    /\ \A t \in StatusTaskIds : WF_vars(StatusTaskSend(t))
    /\ \A t \in StatusTaskIds : WF_vars(\E code \in ResponseCodes : StatusTaskResolve(t, code))

SpecConsoleLive == InitConsole /\ [][NextConsole]_vars /\ FairnessConsole

\* The agent with both services at work: the reporter, and collections that
\* the operator starts with credentials that verify and that run to their
\* end on a healthy store and vCenter.
CollectionRun ==
    \/ StartBegin("c1", FALSE)
    \/ StartVerify([stage |-> "none", marks |-> {}], FALSE)
    \/ \E t \in TaskIds : TaskBegin(t)
    \/ \E t \in TaskIds : TaskSetCollecting(t)
    \/ \E t \in TaskIds : TaskCreate(t, TRUE)
    \/ \E t \in TaskIds : TaskCollect(t, TRUE)
    \/ \E t \in TaskIds : TaskSetReady(t)
    \/ \E t \in TaskIds : TaskResolve(t)

InitAgent == CollectorInit /\ ConsoleInit /\ AgentStarted

NextAgent == CollectionRun \/ ConsoleNext

SpecAgent == InitAgent /\ [][NextAgent]_vars

\* The CredentialsStore on a new database, under any sequence of calls.
InitStore ==
    /\ CollectorInit
    /\ credentials = NoRow
    /\ NewConsoleService
    /\ newConsoleService
    /\ AgentStarted

NextStore == StoreNext

SpecStore == InitStore /\ [][NextStore]_vars

\* migrations.Run, called any number of times on a database that starts new.
InitMigrations ==
    /\ CollectorInit
    /\ credentials = NoRow
    /\ NewConsoleService
    /\ newConsoleService
    /\ StoreInit
    /\ HandlersIdle
    /\ ProcessRunning
    /\ MigrationsInit

NextMigrations == MigrationsNext

SpecMigrations == InitMigrations /\ [][NextMigrations]_vars

\* The handlers, each on every request and every answer of the service.
InitHandlers ==
    /\ CollectorInit
    /\ credentials = NoRow
    /\ inventory = NoInventory
    /\ NewConsoleService
    /\ newConsoleService
    /\ StoreInit
    /\ MigrationsDone
    /\ ProcessRunning
    /\ HandlersInit

NextHandlers == HandlersNext

SpecHandlers == InitHandlers /\ [][NextHandlers]_vars

\* The Reporter while the process is signalled and shuts down. The run loop
\* selects on its ticker and on Console.close only: nothing of the shutdown
\* reaches it.
InitShutdown == CollectorInit /\ ConsoleInit /\ AgentStarted

NextShutdown == ConsoleNext \/ ShutdownNext

SpecShutdown == InitShutdown /\ [][NextShutdown]_vars

-----------------------------------------------------------------------------
(* Properties of the collector (specification Spec) *)

\* A step in which a Start call takes CollectorService.mu: it either goes on
\* to verification holding the lock or returns at once.
StartTakesLock == mu = "unlocked" /\ (mu' = "Start" \/ ret'.op = "Start")

\* The collection tasks submitted, not resolved and not asked to stop.
InFlight == {t \in TaskIds : /\ tasks[t].pc # "none"
                             /\ ~tasks[t].resolved
                             /\ ~tasks[t].cancelled}

\* C1: a Start that takes the lock while a collection future is held and not
\* resolved returns ErrCollectionInProgress, and leaves the state, the last
\* error, the held future (and its task) and the stored credentials as they
\* were.
C1_StartRejectedChangesNothing ==
    [][(StartTakesLock /\ collectFuture # 0 /\ ~tasks[collectFuture].resolved)
       => /\ ret' = Return("Start", ErrCollectionInProgress, NoStatus, "-")
          /\ UNCHANGED <<state, lastError, collectFuture, tasks, credentials,
                         inventory, mu>>]_vars

\* A Start has just been rejected while the held future was unresolved.
C1_Witness ==
    /\ ret = Return("Start", ErrCollectionInProgress, NoStatus, "-")
    /\ collectFuture # 0
    /\ ~tasks[collectFuture].resolved

C3_StartResultState ==
    [][ret'.op = "Start"
       => /\ ret'.err = NoError
                => state' \in {CollectorStateConnected, CollectorStateCollecting,
                               CollectorStateCollected, CollectorStateReady}
          /\ ret'.err # NoError
                => (state' = state \/ state' = CollectorStateError)]_vars

\* C4: at most one collection job body is executing at any moment.
C4_OneCollectionAtATime == Cardinality(Executing) <= 1

\* C5: when Stop returns, the state is Ready with no last error, no future is
\* held, the future that was held and unresolved has been asked to stop, and
\* the credentials row is the one stored before the call.
C5_StopReturnsToReady ==
    [][ret'.op = "Stop"
       => /\ state' = CollectorStateReady
          /\ lastError' = NoError
          /\ collectFuture' = 0
          /\ (collectFuture # 0 /\ ~tasks[collectFuture].resolved)
                => tasks'[collectFuture].cancelled
          /\ credentials' = credentials]_vars

\* Stop has just returned after asking a running collection to stop, with
\* credentials stored.
C5_Witness ==
    /\ ret.op = "Stop"
    /\ state = CollectorStateReady
    /\ credentials # NoRow
    /\ \E t \in TaskIds : tasks[t].cancelled /\ tasks[t].pc = "collect"

\* C6: the last error is set only in the Error state (so every transition
\* into another state has cleared it), and the error text GetStatus reports is
\* non-empty only together with the Error state.
C6_ErrorOnlyInErrorState ==
    /\ lastError # NoError => state = CollectorStateError
    /\ ret.op = "GetStatus"
          => (ret.status.Error # NoError => ret.status.State = CollectorStateError)

\* A collection failed, which recorded its error, and a later Stop has left
\* Ready with the error cleared.
C6_Witness ==
    /\ state = CollectorStateReady
    /\ lastError = NoError
    /\ ret.op = "Stop"
    /\ \E t \in TaskIds : tasks[t].err = ErrCollect

\* C7: when verification fails, Start returns the error, the state is Error
\* with that error recorded, and nothing is submitted to the scheduler; the
\* error is ErrInvalidCredentials for a login error whose text contains
\* "Login failure" or both "incorrect" and "password", and the verification's
\* own error otherwise.
C7_VerificationFailure ==
    [][\A v \in VerifyInputs, f \in BOOLEAN :
          (StartVerify(v, f) /\ v.stage # "none")
          => /\ ret'.op = "Start"
             /\ ret'.err # NoError
             /\ ret'.err = IF /\ v.stage = "login"
                              /\ \/ "Login failure" \in v.marks
                                 \/ {"incorrect", "password"} \subseteq v.marks
                           THEN ErrInvalidCredentials
                           ELSE Err(v.stage, v.marks)
             /\ state' = CollectorStateError
             /\ lastError' = ret'.err
             /\ UNCHANGED <<tasks, nSubmitted, collectFuture>>]_vars

\* Start has just returned ErrInvalidCredentials: Error is recorded and no
\* task was ever submitted.
C7_Witness ==
    /\ ret = Return("Start", ErrInvalidCredentials, NoStatus, "-")
    /\ state = CollectorStateError
    /\ lastError = ErrInvalidCredentials
    /\ nSubmitted = 0

\* C8: whenever the state is Collected the store holds an inventory, so that
\* a GetInventory does not find ErrNotFound.
C8_CollectedHasInventory ==
    state = CollectorStateCollected
        => InventoryGet(inventory, FALSE).err # ErrNotFound

\* C9: unless the database itself fails, GetInventory returns ErrNotFound when
\* the store holds no inventory and the stored bytes otherwise, and Inventory
\* returns the empty JSON object without error when the store holds none and
\* the stored bytes otherwise.
C9_InventoryReads ==
    /\ (ret.op = "GetInventory" /\ ret.err # ErrSQL)
          => IF inventory = NoInventory
             THEN ret.err = ErrNotFound
             ELSE ret.err = NoError /\ ret.data = inventory
    /\ (ret.op = "Inventory" /\ ret.err # ErrSQL)
          => /\ ret.err = NoError
             /\ ret.data = IF inventory = NoInventory THEN EmptyJSON ELSE inventory

\* Inventory has just returned {} from a store that holds no inventory.
C9_Witness ==
    /\ ret = Return("Inventory", NoError, NoStatus, EmptyJSON)
    /\ inventory = NoInventory

-----------------------------------------------------------------------------
(* Properties of the console reporter (specification SpecConsole) *)

\* C10: a request goes out to the remote console only while the target is
\* Connected.
C10_NoRequestUnlessConnected ==
    sent = "status" => target = ConsoleStatusConnected

\* A remote answer of 401 or 410 that came after the last SetMode(connected)
\* (or after construction, when there was none).
TerminalAnswered ==
    \E t \in StatusTaskIds :
        /\ statusTasks[t].resolved
        /\ statusTasks[t].code \in {401, 410}
        /\ statusTasks[t].epoch = nLoops

\* C11: after the remote has answered a request with 401 or 410, no further
\* request is sent until SetMode(connected) is issued again.
C11_NoRequestAfterTerminal ==
    sent = "status" => ~TerminalAnswered

\* The Console as its constructor leaves it: no SetMode call in progress,
\* nothing dispatched, and no run loop beyond the constructor's own.
JustConstructed ==
    /\ setModePc = "idle"
    /\ nDispatched = 0
    /\ \/ nLoops = 0
       \/ nLoops = 1 /\ loops[1].pc = "start"

\* C14: a constructed Reporter has target Connected and a run loop started
\* when the store holds a credentials row with is_data_sharing_allowed true,
\* target Disconnected and no run loop otherwise, and current Disconnected in
\* both cases.
C14_ConstructionReadsCredentials ==
    JustConstructed
        => /\ target = IF credentials # NoRow /\ credentials.IsDataSharingAllowed
                       THEN ConsoleStatusConnected
                       ELSE ConsoleStatusDisconnected
           /\ (target = ConsoleStatusConnected) = (LiveLoops # {})
           /\ current = ConsoleStatusDisconnected

\* C15: after any sequence of SetMode calls at most one run loop is active.
C15_OneRunLoop == Cardinality(LiveLoops) <= 1

\* C16: a SetMode(disconnected) that sends on the close channel finds a run
\* loop that receives from it (whenever the target is Connected a run loop
\* is alive), so the call returns and releases the Console's mutex, for which
\* the other callers of SetMode and Status wait.
C16_SetModeReturns ==
    /\ [](target = ConsoleStatusConnected => LiveLoops # {})
    /\ (setModePc = "sending") ~> (setModePc = "idle")

\* SetMode(disconnected) is blocked in its send while no run loop is ready to
\* receive: the only live loop has not reached its select yet.
C16_Witness ==
    /\ setModePc = "sending"
    /\ LiveLoops # {}
    /\ LiveLoops = StartingLoops

\* C17: a status update that fails with a transient error changes neither the
\* run loops nor the ConsoleStatus, and the run loop that polls its future
\* stays in its loop and submits a new status update (unless that step is
\* the loop's return on a SetMode(disconnected)).
C17_TransientFailureKeepsRunning ==
    [][/\ (\E t \in StatusTaskIds :
              statusTasks[t].pc = "running" /\ statusTasks'[t].code = 500)
          => UNCHANGED <<loops, target, current, consoleError>>
       /\ \A l \in LoopIds :
            (/\ loops[l].pc = "select"
             /\ statusTasks[loops[l].f].resolved
             /\ statusTasks[loops[l].f].code = 500
             /\ loops'[l] # loops[l])
            => \/ setModePc = "sending" /\ loops'[l].pc = "exited"
               \/ /\ loops'[l].pc = "select"
                  /\ loops'[l].f # loops[l].f
                  /\ statusTasks[loops'[l].f].pc = "none"
                  /\ statusTasks'[loops'[l].f].kind = "status"
                  /\ statusTasks'[loops'[l].f].pc = "queued"]_vars

\* A run loop, still running, holds a new status update submitted after an
\* earlier one failed with a transient error.
C17_Witness ==
    \E l \in LoopIds :
        /\ loops[l].pc = "select"
        /\ loops[l].f > 1
        /\ statusTasks[loops[l].f].pc = "queued"
        /\ \E t \in StatusTaskIds : t < loops[l].f /\ statusTasks[t].code = 500

\* C18: every run loop started with the target becoming Connected gets its
\* first status update sent to the remote, without waiting for a tick, and a
\* run loop whose status update has been answered (whatever the answer) is
\* followed by another request for as long as the target stays Connected.
C18_StatusEventuallySent ==
    /\ \A l \in LoopIds :
          (loops[l].pc = "start")
              ~> (/\ loops[l].f # 0
                  /\ statusTasks[loops[l].f].pc = "running"
                  /\ sent = "status")
    /\ \A l \in LoopIds :
          (/\ loops[l].pc = "select"
           /\ statusTasks[loops[l].f].resolved
           /\ nDispatched + Cardinality(StartingLoops) < MaxStatusTasks)
              ~> (sent = "status" \/ target = ConsoleStatusDisconnected)

\* The second status update of a run loop goes out, the target still
\* Connected, after the first was answered.
C18_Witness ==
    /\ sent = "status"
    /\ target = ConsoleStatusConnected
    /\ \E l \in LoopIds :
          /\ loops[l].pc = "select"
          /\ loops[l].f > 1
          /\ statusTasks[loops[l].f].pc = "running"
          /\ \E t \in StatusTaskIds : t < loops[l].f /\ statusTasks[t].resolved

\* The Console's tasks that upload the inventory (PUT /sources/{id}).
InventoryTasks == {t \in StatusTaskIds : statusTasks[t].kind = "inventory"}

\* C13: at a tick of the run loop, an inventory-upload task is submitted if and
\* only if the Reporter is connected, the Collector reports Collected and the
\* stored inventory differs from the last successfully uploaded one (here:
\* there is an inventory and no upload of it has succeeded).
C13_InventoryUploadAtTick ==
    [][\A l \in LoopIds :
          LoopTick(l)
          => ((\E t \in InventoryTasks' : statusTasks[t].pc = "none")
                <=> (/\ target = ConsoleStatusConnected
                     /\ state = CollectorStateCollected
                     /\ inventory # NoInventory
                     /\ \A t \in InventoryTasks : statusTasks[t].code # 200))]_vars

-----------------------------------------------------------------------------
(* Properties of the CredentialsStore (specification SpecStore) *)

\* C20: a Get that follows a successful Save(c), with no other call on the
\* store in between, returns credentials equal to c on url, username,
\* password and is_data_sharing_allowed (unless the database itself fails).
C20_SaveThenGet ==
    [][(/\ storeRet.op = "Save"
        /\ storeRet.err = NoError
        /\ storeRet'.op = "Get"
        /\ storeRet'.err # ErrSQL)
       => /\ storeRet'.err = NoError
          /\ storeRet'.creds.URL = storeRet.creds.URL
          /\ storeRet'.creds.Username = storeRet.creds.Username
          /\ storeRet'.creds.Password = storeRet.creds.Password
          /\ storeRet'.creds.IsDataSharingAllowed = storeRet.creds.IsDataSharingAllowed]_vars

\* Get has returned a row that a second Save wrote over the first one.
C20_Witness ==
    /\ storeRet.op = "Get"
    /\ storeRet.err = NoError
    /\ storeRet.creds.URL = "u2"
    /\ storeRet.creds.Password = "p2"
    /\ storeRet.creds.IsDataSharingAllowed
    /\ storeRet.creds.CreatedAt < storeRet.creds.UpdatedAt

\* C21: Delete returns no error whether or not a row exists and leaves no
\* row; a Get on a table without a row (never saved, or deleted and not saved
\* since) returns ErrNotFound, and only a Save brings a row back (unless the
\* database itself fails).
C21_DeleteThenGet ==
    [][/\ (storeRet'.op = "Delete" /\ storeRet'.err # ErrSQL)
            => storeRet'.err = NoError /\ table' = EmptyTable
       /\ (storeRet'.op = "Get" /\ storeRet'.err # ErrSQL)
            => (storeRet'.err = ErrNotFound) = (table = EmptyTable)
       /\ (table = EmptyTable /\ table' # EmptyTable)
            => storeRet'.op = "Save"
       /\ (storeRet.op = "Delete" /\ storeRet.err = NoError
           /\ storeRet'.op = "Get" /\ storeRet'.err # ErrSQL)
            => storeRet'.err = ErrNotFound]_vars

\* Delete has just returned no error, and no row is left.
C21_Witness ==
    /\ storeRet.op = "Delete"
    /\ storeRet.err = NoError
    /\ table = EmptyTable

\* C22: the credentials table never holds more than one row, and after a
\* successful Save(c) its row holds c's four fields, whether the table was
\* empty (new, or after a Delete) or held a row.
C22_OneRowUpsert ==
    [][/\ Cardinality(table') <= 1
       /\ (storeRet'.op = "Save" /\ storeRet'.err = NoError)
            => /\ Cardinality(table') = 1
               /\ \A r \in table' :
                     /\ r.id = 1
                     /\ r.url = storeRet'.creds.URL
                     /\ r.username = storeRet'.creds.Username
                     /\ r.password = storeRet'.creds.Password
                     /\ r.is_data_sharing_allowed = storeRet'.creds.IsDataSharingAllowed]_vars

\* A Save has just overwritten the row an earlier Save created.
C22_Witness ==
    /\ storeRet.op = "Save"
    /\ storeRet.err = NoError
    /\ \E r \in table : r.created_at < r.updated_at /\ r.url = "u2"

-----------------------------------------------------------------------------
(* Properties of the migrations (specification SpecMigrations) *)

\* C23: a Run that starts after a Run that returned nil executes no migration
\* SQL and adds no row to schema_migrations, and in any Run a file whose
\* version was recorded when the Run started is skipped.
C23_SecondRunNoOp ==
    [][/\ (migRun'.prev = NoError /\ (migRun.pc = "loop" \/ migRun'.pc = "loop"))
            => UNCHANGED <<executed, schemaMigrations, schemaObjects>>
       /\ (/\ migRun.pc = "loop"
           /\ migRun.todo # <<>>
           /\ extractVersion(Head(migRun.todo)) \in migRun.applied)
            => /\ UNCHANGED <<executed, schemaMigrations, schemaObjects>>
               /\ migRun'.pc = "loop"]_vars

\* A second Run has returned nil after a first Run that applied two
\* migrations and returned nil.
C23_Witness ==
    /\ migRun.pc = "idle"
    /\ migRun.n = 2
    /\ migRun.err = NoError
    /\ migRun.prev = NoError
    /\ Cardinality(schemaMigrations.versions) = 2

-----------------------------------------------------------------------------
(* Properties of the HTTP handlers (specification SpecHandlers) *)

\* A POST /collector that passes the handler's validation: the body binds,
\* url, username and password are not empty, the url has a scheme and a host.
ValidStartRequest ==
    /\ request.bind
    /\ request.Url = "https://vcenter/sdk"
    /\ request.Username # ""
    /\ request.Password # ""

\* C26: POST /collector answers 400 without calling Start when validation
\* fails, else 409 for ErrCollectionInProgress, 401 for ErrInvalidCredentials,
\* 500 for any other error and 202 for success; GET /collector/inventory
\* answers 404 for ErrNotFound and 500 for any other error.
C26_HandlerStatus ==
    /\ (request.handler = "StartCollector" /\ response # NoResponse)
          => IF ~ValidStartRequest
             THEN response = Response(400, FALSE)
             ELSE /\ response.called
                  /\ response.code =
                        IF request.outcome = NoError THEN 202
                        ELSE IF request.outcome = ErrCollectionInProgress THEN 409
                        ELSE IF request.outcome = ErrInvalidCredentials THEN 401
                        ELSE 500
    /\ (request.handler = "GetInventory" /\ response # NoResponse)
          => response.code =
                IF request.outcome = NoError THEN 200
                ELSE IF request.outcome = ErrNotFound THEN 404
                ELSE 500

\* A valid POST /collector has been answered 401 for ErrInvalidCredentials.
C26_Witness ==
    /\ request.handler = "StartCollector"
    /\ ValidStartRequest
    /\ request.outcome = ErrInvalidCredentials
    /\ response = Response(401, TRUE)

-----------------------------------------------------------------------------
(* Properties of the futures *)

C25_ExactlyOneSet ==
    /\ \A t \in TaskIds :
          tasks[t].resolved
             => ((CollectionResult(tasks[t]).Data # Nil)
                    # (CollectionResult(tasks[t]).Err # NoError))
    /\ \A t \in StatusTaskIds :
          statusTasks[t].resolved
             => ((StatusResult(statusTasks[t]).Data # Nil)
                    # (StatusResult(statusTasks[t]).Err # NoError))

-----------------------------------------------------------------------------
(* Properties of the collector's state machine (specification Spec) *)

\* The transitions of the collector's state the specification allows to Start
\* and to the collection task.
TransitionTable ==
    {<<CollectorStateReady, CollectorStateConnecting>>,
     <<CollectorStateError, CollectorStateConnecting>>,
     <<CollectorStateConnecting, CollectorStateConnected>>,
     <<CollectorStateConnecting, CollectorStateError>>,
     <<CollectorStateConnected, CollectorStateCollecting>>,
     <<CollectorStateCollecting, CollectorStateCollected>>,
     <<CollectorStateCollecting, CollectorStateError>>,
     <<CollectorStateCollected, CollectorStateReady>>}

\* C27: every change of the collector's state is a transition of the table or
\* Stop's return to Ready, and a task that Stop has cancelled changes the
\* state no more.
C27_TransitionTable ==
    [][/\ state' # state
           => \/ <<state, state'>> \in TransitionTable
              \/ ret'.op = "Stop" /\ state' = CollectorStateReady
       /\ \A t \in TaskIds :
             (tasks[t].cancelled /\ tasks'[t].pc # tasks[t].pc)
                => state' = state]_vars

\* C28: at most one status update is unresolved at any moment.
C28_OneStatusTaskInFlight ==
    Cardinality({t \in StatusTaskIds :
                    statusTasks[t].pc \in {"queued", "running"}}) <= 1

\* C29: a collection task that Stop has cancelled while it collects aborts:
\* it does not go on to set Collected.
C29_CancelledNeverCollected ==
    [][\A t \in TaskIds :
          (tasks[t].cancelled /\ tasks[t].pc = "collect")
             => tasks'[t].pc # "sleep"]_vars

\* C30: the end of the request that called Start, after Start has returned,
\* neither cancels nor fails the task Start submitted and changes nothing of
\* the collector: only Stop cancels a task.
C30_RequestContextBoundsVerification ==
    [][/\ ret'.op = "ServeHTTP" => UNCHANGED <<tasks, state, lastError, collectFuture>>
       /\ \A t \in TaskIds :
             (tasks'[t].cancelled /\ ~tasks[t].cancelled) => ret'.op = "Stop"]_vars

\* The request that called Start is over while the task Start submitted is
\* collecting, not cancelled.
C30_Witness ==
    /\ ret.op = "ServeHTTP"
    /\ collectFuture # 0
    /\ tasks[collectFuture].pc = "collect"
    /\ ~tasks[collectFuture].cancelled

-----------------------------------------------------------------------------
(* Atomicity of a migration (specification SpecMigrations) *)

\* C32: a version is in schema_migrations if and only if the SQL of a file of
\* that version is committed; a turn of Run's loop that fails makes Run
\* return the error, records nothing, commits nothing and ends the loop, so
\* that no later file is applied by that Run.
C32_MigrationAtomic ==
    [][/\ schemaMigrations'.versions = {extractVersion(f) : f \in schemaObjects'}
       /\ (migRun.pc = "loop" /\ migRun.todo # <<>> /\ migRun'.todo # Tail(migRun.todo))
             => /\ migRun'.err # NoError
                /\ migRun'.pc = "idle"
                /\ migRun'.todo = <<>>
                /\ UNCHANGED <<schemaMigrations, schemaObjects>>
       /\ (migRun.pc = "idle" /\ migRun'.pc = "idle" /\ migRun.n > 0)
             => UNCHANGED <<schemaObjects, executed>>]_vars

\* A Run has failed at its second file after it applied its first: one
\* version is recorded, its file is committed, and the file that failed is
\* neither.
C32_Witness ==
    /\ migRun.pc = "idle"
    /\ migRun.n = 1
    /\ migRun.err \in {ErrMigration("executing migration"),
                       ErrMigration("recording migration"),
                       ErrMigration("commit")}
    /\ Cardinality(schemaMigrations.versions) = 1
    /\ \E f \in migrationFiles :
          /\ executed[f] = 1
          /\ f \notin schemaObjects
          /\ extractVersion(f) \notin schemaMigrations.versions

-----------------------------------------------------------------------------
(* Timestamps of the credentials (specification SpecStore) *)

\* C33: a Save sets updated_at to the database time of that Save, which is
\* not less than the updated_at it replaces, and the timestamps a Get returns
\* are set.
C33_UpdatedAtMonotonic ==
    [][/\ (storeRet'.op = "Save" /\ storeRet'.err = NoError /\ clock' = clock)
             => /\ \A r \in table' : r.updated_at = clock
                /\ \A r \in table, q \in table' : r.updated_at <= q.updated_at
       /\ (storeRet'.op = "Get" /\ storeRet'.err = NoError)
             => /\ storeRet'.creds.CreatedAt # 0
                /\ storeRet'.creds.UpdatedAt # 0
                /\ storeRet'.creds.CreatedAt <= storeRet'.creds.UpdatedAt]_vars

\* A Get returns the timestamps of a row that was saved, and saved again at
\* a later time.
C33_Witness ==
    /\ storeRet.op = "Get"
    /\ storeRet.err = NoError
    /\ storeRet.creds.CreatedAt = 1
    /\ storeRet.creds.UpdatedAt = 2

-----------------------------------------------------------------------------
(* The status the Reporter sends (specification SpecAgent) *)

\* C34: every status update is submitted with the agent id, the source id
\* and the collector's status as Status() reads it at the submission.
C34_StatusFollowsCollector ==
    [][\A t \in StatusTaskIds :
          (statusTasks[t].pc = "none" /\ statusTasks'[t].pc = "queued")
             => statusTasks'[t].payload =
                   <<"agentID", "sourceID", CollectorStatusType(state)>>]_vars

-----------------------------------------------------------------------------
(* Readers and the credentials of Start (specification Spec) *)

\* C35: no GetStatus and no Status returns Connecting: each returns only
\* while Start does not hold the lock, and Start holds it from before
\* Connecting until verification has ended in Connected or Error.
C35_ConnectingNotObservable ==
    [][/\ ret'.op = "GetStatus"
             => mu = "unlocked" /\ ret'.status.State # CollectorStateConnecting
       /\ ret'.op = "Status"
             => mu = "unlocked" /\ ret'.data # CollectorStatusConnecting
       /\ (state' = CollectorStateConnecting) <=> (mu' = "Start")]_vars

\* A GetStatus has returned Connected: the Start before it went through
\* Connecting and verification.
C35_Witness ==
    /\ ret.op = "GetStatus"
    /\ ret.status.State = CollectorStateConnected
    /\ collectFuture # 0

\* C36: Start stores the credentials it is given before it verifies them,
\* a failed verification leaves them stored, and in state Error a GetStatus
\* that can read the store reports hasCredentials.
C36_CredentialsKeptOnFailure ==
    [][/\ (mu = "unlocked" /\ mu' = "Start")
             => credentials' \in {Credentials(id, FALSE) : id \in CredentialIds}
       /\ (mu = "Start" /\ ret'.op = "Start" /\ ret'.err # NoError)
             => /\ credentials' = credentials
                /\ credentials' # NoRow
                /\ state' = CollectorStateError
       /\ state' = CollectorStateError
             => StatusOf(FALSE)' = [State |-> CollectorStateError,
                                    Error |-> lastError',
                                    HasCredentials |-> TRUE]]_vars

\* A Start given credentials the store never held has failed with
\* ErrInvalidCredentials, and the store holds them.
C36_Witness ==
    /\ ret.op = "Start"
    /\ ret.err = ErrInvalidCredentials
    /\ state = CollectorStateError
    /\ credentials = Credentials("c2", FALSE)

\* C37: a Start that passes the in-progress check and saves stores the
\* consent flag false, whatever was stored, and verification, whether it
\* succeeds or fails, leaves it false.
C37_ConsentReset ==
    [][/\ (mu = "unlocked" /\ mu' = "Start")
             => ~credentials'.IsDataSharingAllowed
       /\ mu = "Start"
             => /\ ~credentials.IsDataSharingAllowed
                /\ credentials' = credentials]_vars

\* The store held credentials with the consent flag true when the service
\* was constructed; a Start has returned and the flag is false.
C37_Witness ==
    /\ ret.op = "Start"
    /\ ret.err = NoError
    /\ nSubmitted = 1
    /\ credentials = Credentials("c1", FALSE)

-----------------------------------------------------------------------------
(* The current status of the Console (specification SpecConsole) *)

\* C38: ConsoleStatus.current is Disconnected in every reachable state.
C38_CurrentDisconnected == current = ConsoleStatusDisconnected

\* SetMode(connected) has been called twice and a status update has been
\* answered 200: the target is Connected and current is still Disconnected.
C38_Witness ==
    /\ target = ConsoleStatusConnected
    /\ current = ConsoleStatusDisconnected
    /\ nLoops = 2
    /\ \E t \in StatusTaskIds : statusTasks[t].resolved /\ statusTasks[t].code = 200

-----------------------------------------------------------------------------
(* The shutdown (specification SpecShutdown) *)

\* C31: the shutdown goes HTTP server stop, Scheduler close, Store close, the
\* run loops of the Reporter have exited when the Scheduler is closed, and no
\* status update is submitted once the Scheduler is closed.
C31_OrderlyShutdown ==
    [][/\ phase' # phase
             => <<phase, phase'>> \in {<<"running", "signalled">>,
                                       <<"signalled", "serverStopped">>,
                                       <<"serverStopped", "schedulerClosed">>,
                                       <<"schedulerClosed", "storeClosed">>}
       /\ phase' \in {"schedulerClosed", "storeClosed"}
             => /\ LiveLoops' = {}
                /\ nDispatched' = nDispatched]_vars

-----------------------------------------------------------------------------
(* Progress of the collector (specification SpecLive) *)

\* C39: every task a Start has submitted eventually resolves, and after a
\* Start has returned success the state is eventually Ready or Error.
C39_StartQuiesces ==
    /\ \A t \in TaskIds : (tasks[t].pc = "queued") ~> tasks[t].resolved
    /\ (ret.op = "Start" /\ ret.err = NoError)
          ~> (state \in {CollectorStateReady, CollectorStateError})

\* A task has resolved with no error and the collector is back to Ready.
C39_Witness ==
    /\ state = CollectorStateReady
    /\ collectFuture # 0
    /\ tasks[collectFuture].resolved
    /\ tasks[collectFuture].err = NoError

\* C40: the collector's mutex, once taken, is eventually released, and the
\* Start that holds it can always go on to its return, whatever the tasks do.
C40_LockReleased ==
    /\ [](mu # "unlocked"
            => ENABLED (\E v \in VerifyInputs, f \in BOOLEAN : StartVerify(v, f)))
    /\ (mu # "unlocked") ~> (mu = "unlocked")

\* A Start has returned an error, the lock is free, and a task that failed
\* under the lock has returned.
C40_Witness ==
    /\ mu = "unlocked"
    /\ ret.op = "Start"
    /\ ret.err # NoError
    /\ \E t \in TaskIds : tasks[t].pc = "returned" /\ tasks[t].err # NoError

=============================================================================
